---- MODULE Spec2Model ----
(***************************************************************************)
(* Model of src/introduction_pdf.py: the PDF text loader, the invoice      *)
(* schema, the tools of the invoice query agent (validate_calculations in  *)
(* particular) and the coordinator's delegation tools.                     *)
(*                                                                         *)
(* Python's float is IEEE-754 binary64.  The arithmetic of                 *)
(* validate_calculations is modelled bit-exactly: a float is a sign, a     *)
(* 53-bit significand and a binary exponent, and every operation rounds    *)
(* to nearest, ties to even.  Significands do not fit TLC's 32-bit         *)
(* integers, so they are kept as little-endian sequences of 15-bit limbs.  *)
(***************************************************************************)
EXTENDS Integers, Sequences, FiniteSets, TLC

(***************************************************************************)
(* Natural numbers of arbitrary size: little-endian limbs, no leading      *)
(* zero limb, <<>> is zero.                                                *)
(***************************************************************************)
LimbBits == 15
LimbBase == 2^LimbBits

RECURSIVE BNorm(_)
BNorm(a) ==
    IF a = <<>> THEN <<>>
    ELSE IF a[Len(a)] = 0 THEN BNorm(SubSeq(a, 1, Len(a) - 1))
    ELSE a

RECURSIVE BFromInt(_)
BFromInt(n) ==
    IF n = 0 THEN <<>> ELSE <<n % LimbBase>> \o BFromInt(n \div LimbBase)

Limb(a, i) == IF i <= Len(a) THEN a[i] ELSE 0

Max(x, y) == IF x >= y THEN x ELSE y

RECURSIVE BAddFrom(_, _, _, _)
BAddFrom(a, b, i, carry) ==
    IF i > Max(Len(a), Len(b))
    THEN (IF carry = 0 THEN <<>> ELSE <<carry>>)
    ELSE LET t == Limb(a, i) + Limb(b, i) + carry
         IN  <<t % LimbBase>> \o BAddFrom(a, b, i + 1, t \div LimbBase)

BAdd(a, b) == BAddFrom(a, b, 1, 0)

\* a - b for a >= b
RECURSIVE BSubFrom(_, _, _, _)
BSubFrom(a, b, i, borrow) ==
    IF i > Len(a) THEN <<>>
    ELSE LET t == Limb(a, i) - Limb(b, i) - borrow
         IN  IF t < 0
             THEN <<t + LimbBase>> \o BSubFrom(a, b, i + 1, 1)
             ELSE <<t>> \o BSubFrom(a, b, i + 1, 0)

BSub(a, b) == BNorm(BSubFrom(a, b, 1, 0))

\* -1, 0, 1 as a < b, a = b, a > b (both normalised)
RECURSIVE BCmpFrom(_, _, _)
BCmpFrom(a, b, i) ==
    IF i = 0 THEN 0
    ELSE IF a[i] < b[i] THEN -1
    ELSE IF a[i] > b[i] THEN 1
    ELSE BCmpFrom(a, b, i - 1)

BCmp(a, b) ==
    IF Len(a) < Len(b) THEN -1
    ELSE IF Len(a) > Len(b) THEN 1
    ELSE BCmpFrom(a, b, Len(a))

\* a * k for 0 <= k < LimbBase
RECURSIVE BMulSmallFrom(_, _, _, _)
BMulSmallFrom(a, k, i, carry) ==
    IF i > Len(a)
    THEN (IF carry = 0 THEN <<>> ELSE <<carry>>)
    ELSE LET t == a[i] * k + carry
         IN  <<t % LimbBase>> \o BMulSmallFrom(a, k, i + 1, t \div LimbBase)

BMulSmall(a, k) == BNorm(BMulSmallFrom(a, k, 1, 0))

Zeros(n) == [i \in 1..n |-> 0]

BShlLimbs(a, n) == IF a = <<>> THEN <<>> ELSE Zeros(n) \o a

RECURSIVE BMulFrom(_, _, _)
BMulFrom(a, b, j) ==
    IF j > Len(b) THEN <<>>
    ELSE BAdd(BShlLimbs(BMulSmall(a, b[j]), j - 1), BMulFrom(a, b, j + 1))

BMul(a, b) == BMulFrom(a, b, 1)

\* quotient and remainder of a by d, 0 < d < LimbBase; limbs from the top
RECURSIVE BDivSmallFrom(_, _, _, _)
BDivSmallFrom(a, d, i, rem) ==
    IF i = 0 THEN [q |-> <<>>, r |-> rem]
    ELSE LET t    == rem * LimbBase + a[i]
             rest == BDivSmallFrom(a, d, i - 1, t % d)
         IN  [q |-> rest.q \o <<t \div d>>, r |-> rest.r]

BDivSmall(a, d) ==
    LET x == BDivSmallFrom(a, d, Len(a), 0)
    IN  [q |-> BNorm(x.q), r |-> x.r]

BShl(a, k) == BShlLimbs(BMulSmall(a, 2^(k % LimbBits)), k \div LimbBits)

BDropLimbs(a, n) == IF n >= Len(a) THEN <<>> ELSE SubSeq(a, n + 1, Len(a))

\* floor(a / 2^k)
BShr(a, k) == BDivSmall(BDropLimbs(a, k \div LimbBits), 2^(k % LimbBits)).q

\* a mod 2^k
BLow(a, k) == BSub(a, BShl(BShr(a, k), k))

RECURSIVE IntBitLen(_)
IntBitLen(n) == IF n = 0 THEN 0 ELSE 1 + IntBitLen(n \div 2)

BitLen(a) ==
    IF a = <<>> THEN 0 ELSE (Len(a) - 1) * LimbBits + IntBitLen(a[Len(a)])

BIsOdd(a) == a # <<>> /\ a[1] % 2 = 1

(***************************************************************************)
(* binary64.  A float is [s, m, e] with value (-1)^s * m * 2^e; m is zero  *)
(* or has exactly MantissaBits bits, so equal values are equal records.    *)
(* The amounts of an invoice stay far inside the exponent range: overflow, *)
(* subnormals, infinities and NaN do not arise and are not modelled.       *)
(***************************************************************************)
MantissaBits == 53

FZero == [s |-> 0, m |-> <<>>, e |-> 0]

\* The float nearest to (-1)^s * (M + f) * 2^E, ties to even, where f = 0
\* when sticky is FALSE and 0 < f < 1 when it is TRUE (then M has more than
\* MantissaBits bits).
RoundPack(s, M, E, sticky) ==
    LET L == BitLen(M)
    IN  IF L = 0 THEN FZero
        ELSE IF L <= MantissaBits
        THEN [s |-> s, m |-> BShl(M, MantissaBits - L), e |-> E - (MantissaBits - L)]
        ELSE LET k    == L - MantissaBits
                 q    == BShr(M, k)
                 rem  == BLow(M, k)
                 half == BShl(<<1>>, k - 1)
                 c    == BCmp(rem, half)
                 up   == c > 0 \/ (c = 0 /\ (sticky \/ BIsOdd(q)))
                 r    == IF up THEN BAdd(q, <<1>>) ELSE q
             IN  IF BitLen(r) > MantissaBits
                 THEN [s |-> s, m |-> BShr(r, 1), e |-> E + k + 1]
                 ELSE [s |-> s, m |-> r, e |-> E + k]

\* float(n) for a Python int n, exact below 2^53
IntToFloat(n) ==
    IF n < 0 THEN RoundPack(1, BFromInt(-n), 0, FALSE)
    ELSE RoundPack(0, BFromInt(n), 0, FALSE)

FNeg(x) == IF x.m = <<>> THEN x ELSE [x EXCEPT !.s = 1 - x.s]

FAbs(x) == [x EXCEPT !.s = 0]

Min(x, y) == IF x <= y THEN x ELSE y

\* x + y: the exact sum, rounded once
FAdd(x, y) ==
    IF x.m = <<>> THEN y
    ELSE IF y.m = <<>> THEN x
    ELSE LET e0 == Min(x.e, y.e)
             X  == BShl(x.m, x.e - e0)
             Y  == BShl(y.m, y.e - e0)
         IN  IF x.s = y.s THEN RoundPack(x.s, BAdd(X, Y), e0, FALSE)
             ELSE IF BCmp(X, Y) >= 0 THEN RoundPack(x.s, BSub(X, Y), e0, FALSE)
             ELSE RoundPack(y.s, BSub(Y, X), e0, FALSE)

FSub(x, y) == FAdd(x, FNeg(y))

\* x * y: the exact product, rounded once
FMul(x, y) ==
    IF x.m = <<>> \/ y.m = <<>> THEN FZero
    ELSE RoundPack((x.s + y.s) % 2, BMul(x.m, y.m), x.e + y.e, FALSE)

\* x / d for a Python int 0 < d < LimbBase (the divisor is converted to a
\* float exactly): the quotient to 60 extra bits and a sticky remainder
GuardBits == 4 * LimbBits

FDivInt(x, d) ==
    IF x.m = <<>> THEN FZero
    ELSE LET qr == BDivSmall(BShl(x.m, GuardBits), d)
         IN  RoundPack(x.s, qr.q, x.e - GuardBits, qr.r # 0)

\* x < y
FLt(x, y) ==
    IF x.m = <<>> /\ y.m = <<>> THEN FALSE
    ELSE LET d == FSub(x, y) IN d.m # <<>> /\ d.s = 1


(***************************************************************************)
(* Strings are sequences of one-character strings, so that slicing,        *)
(* lower(), strip(), split() and the substring test can be computed.       *)
(***************************************************************************)
Str_Newline == <<"\n">>
Str_ErrorPrefix == <<"E", "r", "r", "o", "r", " ", "r", "e", "a", "d", "i", "n", "g", " ", "P", "D", "F", ":", " ">>
Str_transaction == <<"t", "r", "a", "n", "s", "a", "c", "t", "i", "o", "n">>
Str_transaction_fee == <<"t", "r", "a", "n", "s", "a", "c", "t", "i", "o", "n", " ", "f", "e", "e">>
Str_basic == <<"b", "a", "s", "i", "c">>
Str_basic_fee == <<"b", "a", "s", "i", "c", " ", "f", "e", "e">>

LowerChar(c) ==
    CASE c = "B" -> "b" [] c = "F" -> "f" [] c = "T" -> "t" [] c = "V" -> "v"
      [] OTHER -> c

\* str.lower()
Lower(s) == [i \in 1..Len(s) |-> LowerChar(s[i])]

\* needle in s
Contains(s, needle) ==
    \E i \in 0..(Len(s) - Len(needle)) :
        \A j \in 1..Len(needle) : s[i + j] = needle[j]

IsSpace(c) == c = " " \/ c = "\n"

\* str.strip()
RECURSIVE Strip(_)
Strip(s) ==
    IF s = <<>> THEN s
    ELSE IF IsSpace(s[1]) THEN Strip(Tail(s))
    ELSE IF IsSpace(s[Len(s)]) THEN Strip(SubSeq(s, 1, Len(s) - 1))
    ELSE s

\* s.split('\n'): the pieces between newlines, empty pieces included
RECURSIVE SplitFrom(_, _, _)
SplitFrom(s, i, cur) ==
    IF i > Len(s) THEN <<cur>>
    ELSE IF s[i] = "\n" THEN <<cur>> \o SplitFrom(s, i + 1, <<>>)
    ELSE SplitFrom(s, i + 1, Append(cur, s[i]))

SplitLines(s) == SplitFrom(s, 1, <<>>)

\* s[:n]
Take(s, n) == SubSeq(s, 1, Min(Len(s), n))

\* s.replace(" ", "_")
ReplaceSpaces(s) == [i \in 1..Len(s) |-> IF s[i] = " " THEN "_" ELSE s[i]]


(***************************************************************************)
(* The invoice schema.  The extraction model answers with JSON; a JSON     *)
(* value of a numeric field is a decimal numeral, written here as an       *)
(* integer count of 1/Scale currency units, or it is absent, or it is text *)
(* that is no number.  Pydantic accepts the answer only when every         *)
(* required field is present and numeric, and converts each numeral to the *)
(* nearest float.                                                          *)
(***************************************************************************)
Scale == 10000

Num(n) == [t |-> "num", v |-> n]
Absent == [t |-> "absent", v |-> 0]
NotANumber == [t |-> "text", v |-> 0]

\* float field: the float nearest to the decimal n / Scale
ParseDecimal(n) == FDivInt(IntToFloat(n), Scale)

LineItemValid(item) ==
    /\ item.amount_without_vat.t = "num"
    /\ item.quantity.t = "num"
    /\ item.total_amount.t = "num"

InvoiceSummaryValid(summary) ==
    /\ summary.subtotal.t = "num"
    /\ summary.vat_rate.t = "num"
    /\ summary.vat_amount.t = "num"
    /\ summary.gross_total.t = "num"

\* StructuredInvoice.model_validate succeeds
SchemaValid(raw) ==
    /\ \A i \in 1..Len(raw.line_items) : LineItemValid(raw.line_items[i])
    /\ InvoiceSummaryValid(raw.summary)

LineItem(item) ==
    [service_description |-> item.service_description,
     amount_without_vat  |-> ParseDecimal(item.amount_without_vat.v),
     quantity            |-> item.quantity.v,
     total_amount        |-> ParseDecimal(item.total_amount.v)]

\* vat_rate is a percentage, given in whole percent
InvoiceSummary(summary) ==
    [subtotal    |-> ParseDecimal(summary.subtotal.v),
     vat_rate    |-> IntToFloat(summary.vat_rate.v),
     vat_amount  |-> ParseDecimal(summary.vat_amount.v),
     gross_total |-> ParseDecimal(summary.gross_total.v)]

StructuredInvoice(raw) ==
    [header     |-> raw.header,
     line_items |-> [i \in 1..Len(raw.line_items) |-> LineItem(raw.line_items[i])],
     summary    |-> InvoiceSummary(raw.summary)]

(***************************************************************************)
(* validate_calculations                                                   *)
(***************************************************************************)
\* the literal 0.01
Tolerance == FDivInt(IntToFloat(1), 100)


\* a comparison for equality instead of the tolerance
WithinToleranceExact(a, b) == a = b

\* abs(a - b) < 0.01
WithinTolerance(a, b) == FLt(FAbs(FSub(a, b)), Tolerance)

\* sum(item.total_amount for item in line_items): from 0, left to right
RECURSIVE SumTotalsFrom(_, _, _)
SumTotalsFrom(line_items, i, acc) ==
    IF i > Len(line_items) THEN acc
    ELSE SumTotalsFrom(line_items, i + 1, FAdd(acc, line_items[i].total_amount))


\* the subtotal recomputed from unit amount and quantity
CalculatedSubtotalFromQuantity(invoice_data) ==
    LET Amount(item) == FMul(item.amount_without_vat, IntToFloat(item.quantity))
        lines == [i \in 1..Len(invoice_data.line_items) |->
                    [total_amount |-> Amount(invoice_data.line_items[i])]]
    IN  SumTotalsFrom(lines, 1, FZero)

\* the stated subtotal taken over when there is no line item
CalculatedSubtotalDefaulting(invoice_data) ==
    IF invoice_data.line_items = <<>> THEN invoice_data.summary.subtotal
    ELSE SumTotalsFrom(invoice_data.line_items, 1, FZero)

CalculatedSubtotal(invoice_data) ==
    SumTotalsFrom(invoice_data.line_items, 1, FZero)

Hundred == 100


\* the gross-up factor 1 + rate/100 in place of the rate
CalculatedVatGrossUp(invoice_data, calculated_subtotal) ==
    FMul(calculated_subtotal,
         FAdd(IntToFloat(1), FDivInt(invoice_data.summary.vat_rate, Hundred)))

CalculatedVat(invoice_data, calculated_subtotal) ==
    FMul(calculated_subtotal, FDivInt(invoice_data.summary.vat_rate, Hundred))

CalculatedTotal(invoice_data, calculated_subtotal, calculated_vat) ==
    FAdd(calculated_subtotal, calculated_vat)

Validation(invoice_data) ==
    LET calculated_subtotal == CalculatedSubtotal(invoice_data)
        calculated_vat      == CalculatedVat(invoice_data, calculated_subtotal)
        calculated_total    ==
            CalculatedTotal(invoice_data, calculated_subtotal, calculated_vat)
    IN  [subtotal_correct    |->
             WithinTolerance(calculated_subtotal, invoice_data.summary.subtotal),
         vat_correct         |->
             WithinTolerance(calculated_vat, invoice_data.summary.vat_amount),
         total_correct       |->
             WithinTolerance(calculated_total, invoice_data.summary.gross_total),
         calculated_subtotal |-> calculated_subtotal,
         calculated_vat      |-> calculated_vat,
         calculated_total    |-> calculated_total,
         stated_subtotal     |-> invoice_data.summary.subtotal,
         stated_vat          |-> invoice_data.summary.vat_amount,
         stated_total        |-> invoice_data.summary.gross_total]


(***************************************************************************)
(* Bounds and inputs                                                       *)
(***************************************************************************)
\* line items of an invoice
MaxItems == 2
\* pages of the PDF
MaxPages == 2
\* tool calls the model makes in one run of tools_agent
MaxToolCalls == 3
\* tool calls the model makes in one run of coordinator
MaxDelegations == 2

Header ==
    [company_name |-> "company", company_address |-> "company address",
     customer_name |-> "customer", customer_address |-> "customer address",
     invoice_number |-> "invoice number", invoice_date |-> "invoice date",
     customer_number |-> "customer number"]

RawItem(description, amount, quantity, total) ==
    [service_description |-> description, amount_without_vat |-> Num(amount),
     quantity |-> Num(quantity), total_amount |-> Num(total)]

\* 50.00 * 1 = 50.00; 0.05 * 2 = 0.10; quantity 0 with a total of 0.20
LineItemPool ==
    {RawItem(<<"B", "a", "s", "i", "c", " ", "F", "e", "e">>, 500000, 1, 500000),
     RawItem(<<"T", "r", "a", "n", "s", "a", "c", "t", "i", "o", "n", " ", "F", "e", "e", " ", "T", "1">>, 500, 2, 1000),
     RawItem(<<"T", "r", "a", "n", "s", "a", "c", "t", "i", "o", "n", " ", "F", "e", "e", " ", "T", "3">>, 2000, 0, 2000)}

VatRates == {0, 20}

\* what a stated figure is off by: nothing, 0.0099, 0.01, 1.00
Deltas == {0, 99, 100, 10000}

ItemSeqs == UNION {[1..k -> LineItemPool] : k \in 0..MaxItems}

\* exact decimal arithmetic, in 1/Scale units
RECURSIVE DecimalSumFrom(_, _)
DecimalSumFrom(items, i) ==
    IF i > Len(items) THEN 0
    ELSE items[i].total_amount.v + DecimalSumFrom(items, i + 1)

DecimalSum(items) == DecimalSumFrom(items, 1)

RawInvoice(items, rate, subtotal, vat_amount, gross_total) ==
    [header |-> Header, line_items |-> items,
     summary |-> [subtotal |-> subtotal, vat_rate |-> rate,
                  vat_amount |-> vat_amount, gross_total |-> gross_total]]

\* the invoice whose stated figures are off by d1, d2, d3
OffBy(items, rate, d1, d2, d3) ==
    LET sub == DecimalSum(items)
        vat == (sub * rate) \div 100
    IN  RawInvoice(items, Num(rate), Num(sub + d1), Num(vat + d2),
                   Num(sub + vat + d3))

RawInvoices ==
    {OffBy(items, rate, d1, d2, d3) :
        items \in ItemSeqs, rate \in VatRates, d1 \in Deltas, d2 \in Deltas,
        d3 \in Deltas}

TwoItems ==
    <<RawItem(<<"B", "a", "s", "i", "c", " ", "F", "e", "e">>, 500000, 1, 500000),
      RawItem(<<"T", "r", "a", "n", "s", "a", "c", "t", "i", "o", "n", " ", "F", "e", "e", " ", "T", "1">>, 500, 2, 1000)>>

OneItem == <<RawItem(<<"T", "r", "a", "n", "s", "a", "c", "t", "i", "o", "n", " ", "F", "e", "e", " ", "T", "3">>, 2000, 0, 2000)>>

\* answers of the extraction model in a run of the whole script: two that
\* pass the schema, one without vat_rate, one with a total that is no number
ModelOutputs ==
    {OffBy(TwoItems, 20, 0, 0, 0),
     OffBy(OneItem, 0, 100, 0, 10000),
     RawInvoice(TwoItems, Absent, Num(501000), Num(100200), Num(601200)),
     RawInvoice(<<[OneItem[1] EXCEPT !.total_amount = NotANumber]>>,
                Num(0), Num(2000), Num(0), Num(2000))}

Page(text) == [ok |-> TRUE, text |-> text]
BadPage == [ok |-> FALSE, text |-> <<>>]

PagePool ==
    {Page(<<"B", "a", "s", "i", "c", " ", "F", "e", "e", " ", "1", "3", "0", "\n", "T", "r", "a", "n", "s", "a", "c", "t", "i", "o", "n", " ", "F", "e", "e", " ", "T", "1", " ", "8">>),
     Page(<<" ", "T", "r", "a", "n", "s", "a", "c", "t", "i", "o", "n", " ", "F", "e", "e", " ", "T", "3", " ", "5", " ">>),
     BadPage}

PdfFiles ==
    {[exists |-> FALSE, valid |-> FALSE, size |-> 0, pages |-> <<>>],
     [exists |-> TRUE, valid |-> FALSE, size |-> 1024, pages |-> <<>>]}
    \cup {[exists |-> TRUE, valid |-> TRUE, size |-> 2048, pages |-> ps] :
            ps \in UNION {[1..k -> PagePool] : k \in 0..MaxPages}}

LookupTypes == {<<"T", "r", "a", "n", "s", "a", "c", "t", "i", "o", "n", " ", "F", "e", "e", " ", "T", "1">>, <<"b", "a", "s", "i", "c">>, <<"T", "3">>}

Str_FileNotFound == <<"N", "o", " ", "s", "u", "c", "h", " ", "f", "i", "l", "e">>
Str_PdfReadError == <<"E", "O", "F", " ", "m", "a", "r", "k", "e", "r", " ", "n", "o", "t", " ", "f", "o", "u", "n", "d">>
Str_PageError == <<"b", "a", "d", " ", "p", "a", "g", "e">>
Str_found == <<"f", "o", "u", "n", "d", "_">>
Str_found_basic_fee == <<"f", "o", "u", "n", "d", "_", "b", "a", "s", "i", "c", "_", "f", "e", "e">>


(***************************************************************************)
(* The script.  pc is the statement the script is at; a name that is not   *)
(* bound yet holds the empty set, a bound one the singleton of its value.  *)
(***************************************************************************)
VARIABLES
    pc,                \* position in the script
    pdf_file,          \* the file at PDF_PATH (environment)
    text,              \* extract_pdf_text: text
    page_no,           \* extract_pdf_text: index of the next page of the loop
    INVOICE_TEXT,      \* {} or {the string extract_pdf_text returned}
    exception,         \* the exception that ended the script, if any
    model_output,      \* {} or {the JSON answer to the extraction of line 143}
    extracted_invoice, \* {} or {the StructuredInvoice of line 149}
    invoice_context,   \* {} or {the InvoiceContext of line 184}
    tool_log,          \* tool calls of the tools_agent run: name and return value
    coord_log,         \* tool calls of the coordinator run: name and return value
    produced           \* StructuredInvoice outputs of extraction runs so far

vars ==
    <<pc, pdf_file, text, page_no, INVOICE_TEXT, exception, model_output,
      extracted_invoice, invoice_context, tool_log, coord_log, produced>>

NoException == [site |-> "", kind |-> ""]

Init ==
    /\ pc = "open"
    /\ pdf_file \in PdfFiles
    /\ text = <<>>
    /\ page_no = 0
    /\ INVOICE_TEXT = {}
    /\ exception = NoException
    /\ model_output = {}
    /\ extracted_invoice = {}
    /\ invoice_context = {}
    /\ tool_log = <<>>
    /\ coord_log = <<>>
    /\ produced = 0

\* except Exception as e: return f"Error reading PDF: {e}"
ErrorString(message) == Str_ErrorPrefix \o message

\* the except clause of extract_pdf_text: the call returns the error string
ReturnError(message) ==
    /\ INVOICE_TEXT' = {ErrorString(message)}
    /\ pc' = "basic_agent"
    /\ UNCHANGED <<text, page_no, exception>>

\* with open(pdf_path, 'rb') as file
OpenFile ==
    /\ pc = "open"
    /\ IF pdf_file.exists
       THEN /\ pc' = "reader"
            /\ UNCHANGED <<text, page_no, INVOICE_TEXT, exception>>
       ELSE ReturnError(Str_FileNotFound)
    /\ UNCHANGED <<pdf_file, model_output, extracted_invoice, invoice_context,
                   tool_log, coord_log, produced>>

\* pdf_reader = pypdf.PdfReader(file); text = ""
ConstructReader ==
    /\ pc = "reader"
    /\ IF pdf_file.valid
       THEN /\ pc' = "pages"
            /\ text' = <<>>
            /\ page_no' = 1
            /\ UNCHANGED <<INVOICE_TEXT, exception>>
       ELSE ReturnError(Str_PdfReadError)
    /\ UNCHANGED <<pdf_file, model_output, extracted_invoice, invoice_context,
                   tool_log, coord_log, produced>>


\* the page loop outside the try block: the exception leaves the function
ExtractPageUncaught ==
    /\ pc = "pages"
    /\ page_no <= Len(pdf_file.pages)
    /\ IF pdf_file.pages[page_no].ok
       THEN /\ text' = text \o pdf_file.pages[page_no].text \o Str_Newline
            /\ page_no' = page_no + 1
            /\ UNCHANGED <<pc, INVOICE_TEXT, exception>>
       ELSE /\ exception' = [site |-> "extract_pdf_text", kind |-> "PdfReadError"]
            /\ pc' = "crashed"
            /\ UNCHANGED <<text, page_no, INVOICE_TEXT>>
    /\ UNCHANGED <<pdf_file, model_output, extracted_invoice, invoice_context,
                   tool_log, coord_log, produced>>

\* one pass of the loop: text += page.extract_text() + "\n"
ExtractPage ==
    /\ pc = "pages"
    /\ page_no <= Len(pdf_file.pages)
    /\ IF pdf_file.pages[page_no].ok
       THEN /\ text' = text \o pdf_file.pages[page_no].text \o Str_Newline
            /\ page_no' = page_no + 1
            /\ UNCHANGED <<pc, INVOICE_TEXT, exception>>
       ELSE ReturnError(Str_PageError)
    /\ UNCHANGED <<pdf_file, model_output, extracted_invoice, invoice_context,
                   tool_log, coord_log, produced>>

\* return text
ReturnText ==
    /\ pc = "pages"
    /\ page_no > Len(pdf_file.pages)
    /\ INVOICE_TEXT' = {text}
    /\ pc' = "basic_agent"
    /\ UNCHANGED <<pdf_file, text, page_no, exception, model_output,
                   extracted_invoice, invoice_context, tool_log, coord_log,
                   produced>>

\* basic_pdf_agent.run_sync(...): question and answer, printed
BasicAgentRun ==
    /\ pc = "basic_agent"
    /\ pc' = "extraction_agent"
    /\ UNCHANGED <<pdf_file, text, page_no, INVOICE_TEXT, exception,
                   model_output, extracted_invoice, invoice_context, tool_log,
                   coord_log, produced>>

\* response = extraction_agent.run_sync(...); extracted_invoice = response.output
\* An answer the schema rejects never becomes a StructuredInvoice: the run
\* ends with the framework's exception.
ExtractionAgentRun ==
    /\ pc = "extraction_agent"
    /\ \E raw \in ModelOutputs :
        /\ model_output' = {raw}
        /\ IF SchemaValid(raw)
           THEN /\ extracted_invoice' = {StructuredInvoice(raw)}
                /\ produced' = produced + 1
                /\ pc' = "context"
                /\ UNCHANGED exception
           ELSE /\ exception' = [site |-> "extraction_agent",
                                 kind |-> "UnexpectedModelBehavior"]
                /\ pc' = "crashed"
                /\ UNCHANGED <<extracted_invoice, produced>>
    /\ UNCHANGED <<pdf_file, text, page_no, INVOICE_TEXT, invoice_context,
                   tool_log, coord_log>>

\* os.path.getsize(PDF_PATH) / 1024
FileSizeKb == FDivInt(IntToFloat(pdf_file.size), 1024)

\* file_size = os.path.getsize(PDF_PATH) / 1024; invoice_context = InvoiceContext(...)
CreateContext ==
    /\ pc = "context"
    /\ IF pdf_file.exists
       THEN /\ invoice_context' =
                {[pdf_path       |-> "../data/sample-invoice.pdf",
                  raw_text       |-> CHOOSE s \in INVOICE_TEXT : TRUE,
                  extracted_data |-> CHOOSE inv \in extracted_invoice : TRUE,
                  file_size_kb   |-> FileSizeKb]}
            /\ pc' = "analysis_agent"
            /\ UNCHANGED exception
       ELSE /\ exception' = [site |-> "getsize", kind |-> "FileNotFoundError"]
            /\ pc' = "crashed"
            /\ UNCHANGED invoice_context
    /\ UNCHANGED <<pdf_file, text, page_no, INVOICE_TEXT, model_output,
                   extracted_invoice, tool_log, coord_log, produced>>

\* analysis_agent.run_sync(..., deps=invoice_context): add_invoice_context
\* reads the context for the system prompt; the answer is printed
AnalysisAgentRun ==
    /\ pc = "analysis_agent"
    /\ pc' = "tools_agent"
    /\ UNCHANGED <<pdf_file, text, page_no, INVOICE_TEXT, exception,
                   model_output, extracted_invoice, invoice_context, tool_log,
                   coord_log, produced>>

(***************************************************************************)
(* The tools of tools_agent.  The model calls them in any order, any       *)
(* number of times; ctx.deps is invoice_context.                           *)
(***************************************************************************)
Deps == CHOOSE ctx \in invoice_context : TRUE

\* item.service_description[:30].replace(" ", "_")
ServiceKey(item) == ReplaceSpaces(Take(item.service_description, 30))

\* a dict is the set of its <<key, value>> pairs
LineTotals(invoice_data) ==
    {<<<<"line", i, ServiceKey(invoice_data.line_items[i])>>,
       invoice_data.line_items[i].total_amount>> :
        i \in 1..Len(invoice_data.line_items)}
    \cup {<<<<"subtotal">>, SumTotalsFrom(invoice_data.line_items, 1, FZero)>>}

ToolCall(return) ==
    /\ pc = "tools_agent"
    /\ Len(tool_log) < MaxToolCalls
    /\ tool_log' = Append(tool_log, return)
    /\ UNCHANGED <<pc, pdf_file, text, page_no, INVOICE_TEXT, exception,
                   model_output, extracted_invoice, coord_log, produced>>

calculate_line_totals ==
    /\ ToolCall([tool |-> "calculate_line_totals",
                 value |-> LineTotals(Deps.extracted_data)])
    /\ UNCHANGED invoice_context

MaxOf(S) == CHOOSE x \in S : \A y \in S : y <= x

\* the last line of the loop that passes the test wins the key
TransactionLines(lines, transaction_type) ==
    {i \in 1..Len(lines) :
        /\ Contains(Lower(lines[i]), Str_transaction_fee)
        /\ Contains(Lower(lines[i]), Lower(transaction_type))}

BasicLines(lines) ==
    {i \in 1..Len(lines) : Contains(Lower(lines[i]), Str_basic_fee)}

TransactionDetails(raw_text, transaction_type) ==
    LET lines == SplitLines(raw_text)
        found == TransactionLines(lines, transaction_type)
        basic == BasicLines(lines)
    IN  (IF Contains(Lower(transaction_type), Str_transaction) /\ found # {}
         THEN {<<Str_found \o transaction_type, Strip(lines[MaxOf(found)])>>}
         ELSE {})
        \cup
        (IF Contains(Lower(transaction_type), Str_basic) /\ basic # {}
         THEN {<<Str_found_basic_fee, Strip(lines[MaxOf(basic)])>>}
         ELSE {})

lookup_transaction_details ==
    /\ \E transaction_type \in LookupTypes :
        ToolCall([tool |-> "lookup_transaction_details",
                  value |-> TransactionDetails(Deps.raw_text, transaction_type)])
    /\ UNCHANGED invoice_context


\* the stated subtotal overwritten with the calculated one
validate_calculations_writeback ==
    /\ ToolCall([tool |-> "validate_calculations",
                 value |-> Validation(Deps.extracted_data)])
    /\ invoice_context' =
        {[Deps EXCEPT !.extracted_data.summary.subtotal =
                          CalculatedSubtotal(Deps.extracted_data)]}

validate_calculations ==
    /\ ToolCall([tool |-> "validate_calculations",
                 value |-> Validation(Deps.extracted_data)])
    /\ UNCHANGED invoice_context

\* tools_agent.run_sync returns: the answer is printed
ToolsAgentDone ==
    /\ pc = "tools_agent"
    /\ pc' = "coordinator"
    /\ tool_log' = <<>>
    /\ UNCHANGED <<pdf_file, text, page_no, INVOICE_TEXT, exception,
                   model_output, extracted_invoice, invoice_context, coord_log,
                   produced>>

(***************************************************************************)
(* The tools of coordinator.                                               *)
(***************************************************************************)
Delegation(entry) ==
    /\ pc = "coordinator"
    /\ Len(coord_log) < MaxDelegations
    /\ coord_log' = Append(coord_log, entry)
    /\ UNCHANGED <<pc, pdf_file, text, page_no, INVOICE_TEXT, exception,
                   model_output, extracted_invoice, tool_log>>

\* result = await extraction_specialist.run(...); return result.output
delegate_extraction ==
    \E raw \in ModelOutputs :
        IF SchemaValid(raw)
        THEN /\ Delegation([tool |-> "delegate_extraction", deps |-> {},
                            output |-> {StructuredInvoice(raw)}])
             /\ produced' = produced + 1
             /\ UNCHANGED invoice_context
        ELSE /\ pc = "coordinator"
             /\ Len(coord_log) < MaxDelegations
             /\ exception' = [site |-> "delegate_extraction",
                              kind |-> "UnexpectedModelBehavior"]
             /\ pc' = "crashed"
             /\ UNCHANGED <<pdf_file, text, page_no, INVOICE_TEXT, model_output,
                            extracted_invoice, invoice_context, tool_log,
                            coord_log, produced>>

\* the StructuredInvoice values the model can pass as a tool argument
ArgumentInvoices == {StructuredInvoice(raw) : raw \in {r \in ModelOutputs : SchemaValid(r)}}

\* updated_context = InvoiceContext(..., extracted_data=extracted_data, ...)
UpdatedContext(deps, extracted_data) ==
    [pdf_path       |-> deps.pdf_path,
     raw_text       |-> deps.raw_text,
     extracted_data |-> extracted_data,
     file_size_kb   |-> deps.file_size_kb]


\* ctx.deps.extracted_data assigned instead of a new context built
delegate_validation_in_place ==
    /\ \E extracted_data \in ArgumentInvoices :
        /\ Delegation([tool |-> "delegate_validation",
                       deps |-> {UpdatedContext(Deps, extracted_data)},
                       output |-> {}])
        /\ invoice_context' = {UpdatedContext(Deps, extracted_data)}
    /\ UNCHANGED produced

\* validation_specialist runs with the new context; ctx.deps is left alone
delegate_validation ==
    /\ \E extracted_data \in ArgumentInvoices :
        Delegation([tool |-> "delegate_validation",
                    deps |-> {UpdatedContext(Deps, extracted_data)},
                    output |-> {}])
    /\ UNCHANGED <<invoice_context, produced>>

\* business_analyst runs with deps=ctx.deps
delegate_analysis ==
    /\ Delegation([tool |-> "delegate_analysis", deps |-> {Deps}, output |-> {}])
    /\ UNCHANGED <<invoice_context, produced>>

\* coordinator.run_sync returns: the report is printed
CoordinatorDone ==
    /\ pc = "coordinator"
    /\ pc' = "done"
    /\ UNCHANGED <<pdf_file, text, page_no, INVOICE_TEXT, exception,
                   model_output, extracted_invoice, invoice_context, tool_log,
                   coord_log, produced>>

Next ==
    \/ OpenFile
    \/ ConstructReader
    \/ ExtractPage
    \/ ReturnText
    \/ BasicAgentRun
    \/ ExtractionAgentRun
    \/ CreateContext
    \/ AnalysisAgentRun
    \/ calculate_line_totals
    \/ lookup_transaction_details
    \/ validate_calculations
    \/ ToolsAgentDone
    \/ delegate_extraction
    \/ delegate_validation
    \/ delegate_analysis
    \/ CoordinatorDone

Spec == Init /\ [][Next]_vars

(***************************************************************************)
(* validate_calculations on its own: the run is at the tools_agent call,   *)
(* the extraction model has answered with any invoice of RawInvoices.      *)
(***************************************************************************)
SamplePdf ==
    [exists |-> TRUE, valid |-> TRUE, size |-> 2048,
     pages |-> <<Page(<<"B", "a", "s", "i", "c", " ", "F", "e", "e">>)>>]

SampleText == SamplePdf.pages[1].text \o Str_Newline

InitValidate ==
    /\ pc = "tools_agent"
    /\ pdf_file = SamplePdf
    /\ text = SampleText
    /\ page_no = 2
    /\ INVOICE_TEXT = {SampleText}
    /\ exception = NoException
    /\ \E raw \in RawInvoices :
        /\ model_output = {raw}
        /\ extracted_invoice = {StructuredInvoice(raw)}
        /\ invoice_context =
            {[pdf_path       |-> "../data/sample-invoice.pdf",
              raw_text       |-> SampleText,
              extracted_data |-> StructuredInvoice(raw),
              file_size_kb   |-> IntToFloat(2)]}
    /\ tool_log = <<>>
    /\ coord_log = <<>>
    /\ produced = 1

\* one call for each invoice
NextValidate == tool_log = <<>> /\ validate_calculations

SpecValidate == InitValidate /\ [][NextValidate]_vars

(***************************************************************************)
(* Properties                                                              *)
(***************************************************************************)
\* the values validate_calculations has returned in this run of tools_agent
Returned ==
    {tool_log[i].value :
        i \in {j \in 1..Len(tool_log) : tool_log[j].tool = "validate_calculations"}}

AllCorrect(v) == v.subtotal_correct /\ v.vat_correct /\ v.total_correct

Abs(x) == IF x < 0 THEN -x ELSE x

\* The decimal figures of the invoice as the extraction model wrote them, in
\* 1/Scale units; the differences of tax and total are scaled by 100.
SubtotalDiff(raw) == Abs(DecimalSum(raw.line_items) - raw.summary.subtotal.v)

VatDiff100(raw) ==
    Abs(DecimalSum(raw.line_items) * raw.summary.vat_rate.v
        - 100 * raw.summary.vat_amount.v)

TotalDiff100(raw) ==
    Abs(100 * DecimalSum(raw.line_items)
        + DecimalSum(raw.line_items) * raw.summary.vat_rate.v
        - 100 * raw.summary.gross_total.v)

\* stated subtotal, tax and total are exactly what the line items give
Consistent(raw) ==
    /\ raw.summary.subtotal.v = DecimalSum(raw.line_items)
    /\ 100 * raw.summary.vat_amount.v = raw.summary.subtotal.v * raw.summary.vat_rate.v
    /\ raw.summary.gross_total.v = raw.summary.subtotal.v + raw.summary.vat_amount.v

\* C1: an invoice whose stated subtotal, tax amount and gross total are
\* exactly the sum of the line totals, subtotal * rate / 100 and subtotal +
\* tax validates with subtotal_correct, vat_correct and total_correct true.
C1_ConsistentInvoiceAllCorrect ==
    \A raw \in model_output :
        Consistent(raw) => \A v \in Returned : AllCorrect(v)

\* a consistent invoice at 20 % whose float sum 0.10 + 0.20 is not the float
\* 0.30 has been validated
C1_Witness ==
    \E raw \in model_output, v \in Returned :
        /\ Consistent(raw)
        /\ raw.summary.vat_rate.v = 20
        /\ Len(raw.line_items) = 2
        /\ v.calculated_subtotal # v.stated_subtotal
        /\ AllCorrect(v)

\* C2: each boolean is true exactly when the computed figure and the stated
\* one differ by less than 0.01.
C2_CorrectIffWithinOneCent ==
    \A raw \in model_output : \A v \in Returned :
        /\ v.subtotal_correct <=> (SubtotalDiff(raw) < Scale \div 100)
        /\ v.vat_correct <=> (VatDiff100(raw) < Scale)
        /\ v.total_correct <=> (TotalDiff100(raw) < Scale)

\* C3: a difference of exactly 0.01 fails the check and a difference of
\* 0.0099 passes it.
C3_StrictTolerance ==
    \A raw \in model_output : \A v \in Returned :
        /\ SubtotalDiff(raw) = 100 => ~v.subtotal_correct
        /\ VatDiff100(raw) = 10000 => ~v.vat_correct
        /\ TotalDiff100(raw) = 10000 => ~v.total_correct
        /\ SubtotalDiff(raw) = 99 => v.subtotal_correct
        /\ VatDiff100(raw) = 9900 => v.vat_correct
        /\ TotalDiff100(raw) = 9900 => v.total_correct

\* C8 as stated: at a tax rate of 0 the calculated tax is 0 and total_correct
\* has the truth value of subtotal_correct.
C8_ZeroRateTotalAsSubtotal ==
    \A raw \in model_output : \A v \in Returned :
        raw.summary.vat_rate.v = 0 =>
            /\ v.calculated_vat = FZero
            /\ v.total_correct <=> v.subtotal_correct

\* C8 amended: at a tax rate of 0 the calculated tax is 0 and the calculated
\* total is the calculated subtotal; total_correct has the truth value of
\* subtotal_correct when the stated gross total is the stated subtotal.
C8_ZeroRateTotalIsSubtotal ==
    \A raw \in model_output : \A v \in Returned :
        raw.summary.vat_rate.v = 0 =>
            /\ v.calculated_vat = FZero
            /\ v.calculated_total = v.calculated_subtotal
            /\ raw.summary.gross_total.v = raw.summary.subtotal.v
                   => (v.total_correct <=> v.subtotal_correct)

\* rate 0, line items, gross total stated as the subtotal, both checks failing
C8_Witness ==
    \E raw \in model_output, v \in Returned :
        /\ raw.summary.vat_rate.v = 0
        /\ raw.line_items # <<>>
        /\ raw.summary.gross_total.v = raw.summary.subtotal.v
        /\ raw.summary.vat_amount.v # 0
        /\ ~v.total_correct /\ ~v.subtotal_correct

\* C9: with no line item validate_calculations ends without an exception and
\* returns a calculated subtotal of 0; a stated subtotal of 0 is then correct.
C9_EmptyInvoice ==
    \A raw \in model_output :
        raw.line_items = <<>> =>
            /\ exception = NoException
            /\ \A v \in Returned :
                /\ v.calculated_subtotal = FZero
                /\ raw.summary.subtotal.v = 0 => v.subtotal_correct

\* no line item, validated, once with a stated subtotal of 0
C9_Witness ==
    \E raw \in model_output, v \in Returned :
        /\ raw.line_items = <<>>
        /\ raw.summary.subtotal.v = 0
        /\ v.subtotal_correct

\* other values for the fields of a line item that are not its total
OtherFields ==
    {[service_description |-> <<"x">>, amount_without_vat |-> ParseDecimal(70000),
      quantity |-> 0],
     [service_description |-> <<"y", " ", "z">>, amount_without_vat |-> FZero,
      quantity |-> 3]}

WithFields(invoice_data, i, other) ==
    [invoice_data EXCEPT
        !.line_items[i].service_description = other.service_description,
        !.line_items[i].amount_without_vat = other.amount_without_vat,
        !.line_items[i].quantity = other.quantity]

\* C10: the result depends on a line item through total_amount only: an
\* invoice of one line item has that item's total as calculated subtotal,
\* whatever the quantity, and changing description, unit amount or quantity
\* of any item leaves the result as returned.
C10_OnlyTotalAmountCounts ==
    \A ctx \in invoice_context : \A v \in Returned :
        LET invoice_data == ctx.extracted_data
        IN  /\ Len(invoice_data.line_items) = 1
                => v.calculated_subtotal = invoice_data.line_items[1].total_amount
            /\ \A i \in 1..Len(invoice_data.line_items) : \A other \in OtherFields :
                Validation(WithFields(invoice_data, i, other)) = v

\* a validated invoice with an item of quantity 0 and one whose total is not
\* unit amount * quantity
C10_Witness ==
    \E ctx \in invoice_context, v \in Returned :
        /\ \E i \in 1..Len(ctx.extracted_data.line_items) :
            /\ ctx.extracted_data.line_items[i].quantity = 0
            /\ ctx.extracted_data.line_items[i].total_amount # FZero
        /\ \E raw \in model_output : \E i \in 1..Len(raw.line_items) :
            raw.line_items[i].total_amount.v
                # raw.line_items[i].amount_without_vat.v * raw.line_items[i].quantity.v
        /\ v.calculated_subtotal # FZero

IsValidateCall(log) ==
    log # <<>> /\ log[Len(log)].tool = "validate_calculations"

\* C5: a call of validate_calculations returns what every earlier call of
\* the run returned, whatever tools ran in between, and changes nothing but
\* the record of the call.
C5_ValidatePure ==
    [][(Len(tool_log') = Len(tool_log) + 1 /\ IsValidateCall(tool_log'))
        => /\ \A v \in Returned : tool_log'[Len(tool_log')].value = v
           /\ UNCHANGED <<pc, pdf_file, text, page_no, INVOICE_TEXT, exception,
                          model_output, extracted_invoice, invoice_context,
                          coord_log, produced>>]_vars

\* two calls of validate_calculations with another tool between them
C5_Witness ==
    /\ Len(tool_log) = 3
    /\ tool_log[1].tool = "validate_calculations"
    /\ tool_log[2].tool # "validate_calculations"
    /\ tool_log[3].tool = "validate_calculations"
    /\ tool_log[3].value = tool_log[1].value

Extractions ==
    {i \in 1..Len(coord_log) : coord_log[i].tool = "delegate_extraction"}

\* C6 as stated: the context holds the invoice first extracted and no second
\* StructuredInvoice is produced for the document.
C6_ProducedOnce ==
    /\ \A ctx \in invoice_context : ctx.extracted_data \in extracted_invoice
    /\ produced <= 1

\* C6 amended: the context of the run always holds the invoice first
\* extracted; each call of delegate_extraction produces one more
\* StructuredInvoice for the document.
C6_ContextKeepsFirstInvoice ==
    /\ \A ctx \in invoice_context : \A raw \in model_output :
        /\ ctx.extracted_data = StructuredInvoice(raw)
        /\ extracted_invoice = {ctx.extracted_data}
    /\ extracted_invoice # {} => produced = 1 + Cardinality(Extractions)

\* delegate_extraction has returned another invoice and delegate_validation
\* has run on an invoice that is not the one of the context
C6_Witness ==
    \E ctx \in invoice_context :
        /\ \E i \in 1..Len(coord_log) :
            /\ coord_log[i].tool = "delegate_extraction"
            /\ coord_log[i].output # {ctx.extracted_data}
        /\ \E i \in 1..Len(coord_log) :
            /\ coord_log[i].tool = "delegate_validation"
            /\ \E d \in coord_log[i].deps : d.extracted_data # ctx.extracted_data
        /\ produced = 2

RECURSIVE ConcatPages(_, _)
ConcatPages(pages, i) ==
    IF i > Len(pages) THEN <<>>
    ELSE pages[i].text \o Str_Newline \o ConcatPages(pages, i + 1)

\* what the call has to return for the file
ExpectedText(f) ==
    IF ~f.exists THEN ErrorString(Str_FileNotFound)
    ELSE IF ~f.valid THEN ErrorString(Str_PdfReadError)
    ELSE IF \E i \in 1..Len(f.pages) : ~f.pages[i].ok
    THEN ErrorString(Str_PageError)
    ELSE ConcatPages(f.pages, 1)

\* C7: extract_pdf_text never raises: it returns the text of the pages, each
\* followed by a newline, or the error string when opening the file, building
\* the reader or extracting a page fails.
C7_ExtractNeverRaises ==
    /\ exception.site # "extract_pdf_text"
    /\ pc \notin {"open", "reader", "pages"} => INVOICE_TEXT = {ExpectedText(pdf_file)}

\* the second page failed after the first was read: the error string is back
C7_Witness ==
    /\ pc = "basic_agent"
    /\ Len(pdf_file.pages) = 2
    /\ pdf_file.pages[1].ok /\ ~pdf_file.pages[2].ok
    /\ text # <<>>
    /\ INVOICE_TEXT = {ErrorString(Str_PageError)}

====
